---- MODULE Spec2Model ----
(***************************************************************************)
(* Model of src/main.py ("Denezhnaya kopilka"): the Goal class, its        *)
(* constructor, add_funds, withdraw_funds, _log_transaction, to_dict and   *)
(* from_dict; the store functions load_goals, save_goals and               *)
(* find_goal_by_name; and the menu loop of main with add_goal and          *)
(* change_balance.                                                         *)
(*                                                                         *)
(* Three specifications share the definitions:                               *)
(*   Spec       the whole life of a Goal object: construction from any     *)
(*              name, target and category, balance operations, the         *)
(*              to_dict/from_dict round trip, with time passing;           *)
(*   SpecFunds  the balance operations on a goal constructed with any      *)
(*              target the constructor accepts.  add_funds and             *)
(*              withdraw_funds read neither the name, the category nor the *)
(*              clock, so these are fixed there;                           *)
(*   SpecCLI    one run of main(): the goals file found at start, the menu *)
(*              loop, the prompts of add_goal and change_balance with the  *)
(*              text typed at each, an interrupt at any prompt, and the    *)
(*              save after each operation.                                 *)
(*                                                                         *)
(* Numbers are Python floats.  They are modelled as a scaled-down IEEE-754 *)
(* binary format: Precision bits of significand (53 in CPython), exponents *)
(* 0..EMax, round-to-nearest-even, overflow to infinity, plus the special  *)
(* values nan, inf and -inf that float() accepts from text.  Comparisons   *)
(* with nan are false, as in Python.                                       *)
(*                                                                         *)
(* Strings are sequences of one-character strings.  String literals of the *)
(* source that are written in Cyrillic are transliterated:                 *)
(*   "Aktivna" / "Dostignuta" / "Otmenena"  the three statuses,            *)
(*   "Popolnenie" / "Snyatie"               the two operations,            *)
(*   "Bez kategorii"                        the default category.          *)
(***************************************************************************)
EXTENDS Integers, Sequences, FiniteSets, TLC

VARIABLES goal, copy, last, clock, goals, file, pc, locals, choices, saved

vars == <<goal, copy, last, clock, goals, file, pc, locals, choices, saved>>

\* the state of a run of main(), and the state of the Goal object under test
cliVars == <<goals, file, pc, locals, choices, saved>>
objVars == <<goal, copy, clock>>

(***************************************************************************)
(* Bounds of the model.                                                    *)
(***************************************************************************)
\* bits of significand of the float format
Precision == 2
\* largest exponent of the float format
EMax == 1
\* longest string passed as a name or a category
MaxStrLen == 2
\* most successful balance operations on one goal
MaxOps == 2
\* last reading of the wall clock
MaxClock == 1
\* most operations (add goal, change balance) chosen in one run of main()
MaxChoices == 2

(***************************************************************************)
(* Python floats.                                                          *)
(***************************************************************************)
RECURSIVE Pow2(_)
Pow2(n) == IF n = 0 THEN 1 ELSE 2 * Pow2(n - 1)

\* largest finite float
MaxFinite == (Pow2(Precision) - 1) * Pow2(EMax)

Fin(n) == [k |-> "fin", v |-> n]
NaN == [k |-> "nan", v |-> 0]
Inf == [k |-> "inf", v |-> 1]
NegInf == [k |-> "inf", v |-> -1]
Zero == Fin(0)

Abs(n) == IF n < 0 THEN -n ELSE n
Sign(n) == IF n < 0 THEN -1 ELSE 1

\* the spacing of the floats around magnitude a (a >= 0): the least power of
\* two u with a < 2^Precision * u
RECURSIVE Ulp(_, _)
Ulp(a, u) == IF a < Pow2(Precision) * u THEN u ELSE Ulp(a, 2 * u)

\* the exact integer n rounded to the nearest float, ties to even, overflow
\* to infinity
FRound(n) ==
    LET a == Abs(n)
        u == Ulp(a, 1)
        q == a \div u
        r == a % u
        up == (2 * r > u) \/ (2 * r = u /\ q % 2 = 1)
        m == (IF up THEN q + 1 ELSE q) * u
    IN  IF m > MaxFinite
        THEN [k |-> "inf", v |-> Sign(n)]
        ELSE Fin(Sign(n) * m)

\* every finite float of the format
FiniteFloats == {Fin(n) : n \in {i \in (-MaxFinite)..MaxFinite : FRound(i) = Fin(i)}}
Floats == FiniteFloats \cup {NaN, Inf, NegInf}

FNeg(x) == IF x.k = "nan" THEN NaN ELSE [k |-> x.k, v |-> -x.v]

\* x + y
FAdd(x, y) ==
    IF x.k = "nan" \/ y.k = "nan" THEN NaN
    ELSE IF x.k = "inf" /\ y.k = "inf" THEN (IF x.v = y.v THEN x ELSE NaN)
    ELSE IF x.k = "inf" THEN x
    ELSE IF y.k = "inf" THEN y
    ELSE FRound(x.v + y.v)

\* x - y
FSub(x, y) == FAdd(x, FNeg(y))

\* position of a non-nan float on the number line
Ord(x) == IF x.k = "inf" THEN x.v * (MaxFinite + 1) ELSE x.v

\* x < y, x <= y, x > y, x >= y: false as soon as one side is nan
FLt(x, y) == x.k # "nan" /\ y.k # "nan" /\ Ord(x) < Ord(y)
FLe(x, y) == x.k # "nan" /\ y.k # "nan" /\ Ord(x) <= Ord(y)
FGt(x, y) == FLt(y, x)
FGe(x, y) == FLe(y, x)

\* float(x) of a value that is a float already
float(x) == x

(***************************************************************************)
(* Python strings.                                                         *)
(***************************************************************************)
Chars == {" ", "a"}

RECURSIVE SeqsOf(_, _)
SeqsOf(S, n) ==
    IF n = 0 THEN {<<>>}
    ELSE LET shorter == SeqsOf(S, n - 1)
         IN  shorter \cup {Append(s, c) : s \in {t \in shorter : Len(t) = n - 1}, c \in S}

Strings == SeqsOf(Chars, MaxStrLen)

\* the None of an omitted argument, a value no string equals
None == <<"None">>

RECURSIVE lstrip(_)
lstrip(s) == IF s # <<>> /\ Head(s) = " " THEN lstrip(Tail(s)) ELSE s

RECURSIVE rstrip(_)
rstrip(s) ==
    IF s # <<>> /\ s[Len(s)] = " " THEN rstrip(SubSeq(s, 1, Len(s) - 1)) ELSE s

\* str.strip()
strip(s) == rstrip(lstrip(s))

\* truth value of a string or None
Truthy(s) == s # None /\ s # <<>>

(***************************************************************************)
(* class Goal.                                                             *)
(***************************************************************************)
Aktivna == "Aktivna"
Dostignuta == "Dostignuta"
Otmenena == "Otmenena"
Popolnenie == "Popolnenie"
Snyatie == "Snyatie"

\* the category of a goal created without one
BezKategorii == <<"B", "e", "z", " ", "k", "a", "t", "e", "g", "o", "r", "i", "i">>

\* the messages of the ValueErrors, in the order of the source; the excess
\* that the fourth one ends with is left out
MsgNamePustoe == "Nazvanie tseli ne mozhet byt pustym."
MsgSummaBolsheNulya == "Itogovaya summa dolzhna byt bolshe nulya."
MsgPopolneniePolozhitelnoe == "Summa popolneniya dolzhna byt polozhitelnoy."
MsgNelzyaPrevysit == "Nelzya prevysit tselevuyu summu."
MsgSnyatiePolozhitelnoe == "Summa snyatiya dolzhna byt polozhitelnoy."
MsgNedostatochno == "Nedostatochno sredstv na balanse."
NoMsg == ""

\* outcome of a call: the exception it raised with its message, or none, and
\* the object as the call leaves it
Raised(msg, self) == [raised |-> "ValueError", msg |-> msg, self |-> self]
Returned(self) == [raised |-> "none", msg |-> NoMsg, self |-> self]

\* the two checks of Goal.__init__: the message of the ValueError, or NoMsg
Goal_check(name, target_amount) ==
    IF ~Truthy(name) \/ ~Truthy(strip(name)) THEN MsgNamePustoe
    ELSE IF FLe(target_amount, Zero) THEN MsgSummaBolsheNulya
    ELSE NoMsg

\* the category Goal.__init__ stores
Goal_category(category) ==
    IF Truthy(category) THEN strip(category) ELSE BezKategorii

\* the object Goal.__init__ builds when it does not raise; now is the reading
\* of datetime.now()
Goal_init(name, target_amount, category, now) ==
    [name |-> strip(name),
     target_amount |-> float(target_amount),
     current_balance |-> Zero,
     category |-> Goal_category(category),
     status |-> Aktivna,
     created_at |-> now,
     history |-> <<>>]

\* a call that raised an exception other than ValueError
Raise(exc, self) == [raised |-> exc, msg |-> NoMsg, self |-> self]

\* A value read from or written to JSON: a dict with the keys it has and
\* their values (val holds a value for every key of a goal; the ones of absent
\* keys are never read), or a value of another type such as a number.
GoalKeys ==
    {"name", "target_amount", "current_balance", "category", "status",
     "created_at", "history"}
PyDict(keys, val) == [t |-> "dict", keys |-> keys, val |-> val]
NoVal ==
    [name |-> <<>>, target_amount |-> Zero, current_balance |-> Zero,
     category |-> <<>>, status |-> "", created_at |-> 0, history |-> <<>>]
PyNumber == [t |-> "number", keys |-> {}, val |-> NoVal]

\* Goal.to_dict
to_dict(self) ==
    PyDict(GoalKeys,
           [name |-> self.name,
            target_amount |-> self.target_amount,
            current_balance |-> self.current_balance,
            category |-> self.category,
            status |-> self.status,
            created_at |-> self.created_at,
            history |-> self.history])

\* from_dict_restore that checks the balance against the target
from_dict_restore_clamp(fresh, data) ==
    [fresh EXCEPT !.current_balance =
                      IF FGt(data.val.current_balance, fresh.target_amount)
                      THEN fresh.target_amount
                      ELSE IF FLt(data.val.current_balance, Zero) THEN Zero
                      ELSE data.val.current_balance,
                  !.status = data.val.status,
                  !.created_at = data.val.created_at,
                  !.history = IF "history" \in data.keys
                              THEN data.val.history ELSE <<>>]

\* the fields Goal.from_dict restores on the freshly constructed object
from_dict_restore(fresh, data) ==
    [fresh EXCEPT !.current_balance = data.val.current_balance,
                  !.status = data.val.status,
                  !.created_at = data.val.created_at,
                  !.history = IF "history" \in data.keys
                              THEN data.val.history ELSE <<>>]

\* Goal.from_dict: subscripting a value that is not a dict raises TypeError,
\* a missing key KeyError, in the order in which the source reads the keys
from_dict(data, now) ==
    IF data.t # "dict" THEN Raise("TypeError", data.val)
    ELSE IF ~({"name", "target_amount", "category"} \subseteq data.keys)
    THEN Raise("KeyError", data.val)
    ELSE IF Goal_check(data.val.name, data.val.target_amount) # NoMsg
    THEN Raised(Goal_check(data.val.name, data.val.target_amount), data.val)
    ELSE IF ~({"current_balance", "status", "created_at"} \subseteq data.keys)
    THEN Raise("KeyError", data.val)
    ELSE Returned(from_dict_restore(
             Goal_init(data.val.name, data.val.target_amount,
                       data.val.category, now), data))

\* _log_transaction that puts the new record in front of the history
_log_transaction_prepend(self, operation, amount, now) ==
    [self EXCEPT !.history = <<[operation |-> operation,
                                amount |-> amount,
                                balance_after |-> self.current_balance,
                                timestamp |-> now]>> \o @]

\* Goal._log_transaction
_log_transaction(self, operation, amount, now) ==
    [self EXCEPT !.history = Append(@, [operation |-> operation,
                                        amount |-> amount,
                                        balance_after |-> self.current_balance,
                                        timestamp |-> now])]

\* the status update that ends Goal.add_funds
add_funds_status(self) ==
    IF FGe(self.current_balance, self.target_amount)
    THEN [self EXCEPT !.status = Dostignuta]
    ELSE self

\* add_funds that tops the goal up to its target instead of refusing
add_funds_clamp(self, amount, now) ==
    IF FLe(amount, Zero) THEN Raised(MsgPopolneniePolozhitelnoe, self)
    ELSE Returned(add_funds_status(_log_transaction(
             [self EXCEPT !.current_balance =
                  IF FGt(FAdd(@, amount), self.target_amount)
                  THEN self.target_amount
                  ELSE FAdd(@, amount)],
             Popolnenie, amount, now)))

\* add_funds that logs the transaction before it changes the balance
add_funds_log_first(self, amount, now) ==
    IF FLe(amount, Zero) THEN Raised(MsgPopolneniePolozhitelnoe, self)
    ELSE IF FGt(FAdd(self.current_balance, amount), self.target_amount)
    THEN Raised(MsgNelzyaPrevysit, self)
    ELSE Returned(add_funds_status(
             [_log_transaction(self, Popolnenie, amount, now)
                  EXCEPT !.current_balance = FAdd(@, amount)]))

\* Goal.add_funds
add_funds(self, amount, now) ==
    IF FLe(amount, Zero) THEN Raised(MsgPopolneniePolozhitelnoe, self)
    ELSE IF FGt(FAdd(self.current_balance, amount), self.target_amount)
    THEN Raised(MsgNelzyaPrevysit, self)
    ELSE Returned(add_funds_status(_log_transaction(
             [self EXCEPT !.current_balance = FAdd(@, amount)],
             Popolnenie, amount, now)))

\* withdraw_funds without the check of the balance
withdraw_funds_overdraw(self, amount, now) ==
    IF FLe(amount, Zero) THEN Raised(MsgSnyatiePolozhitelnoe, self)
    ELSE Returned(_log_transaction(
             [self EXCEPT !.current_balance = FSub(@, amount)],
             Snyatie, amount, now))

\* withdraw_funds that logs the operation of add_funds
withdraw_funds_log_deposit(self, amount, now) ==
    IF FLe(amount, Zero) THEN Raised(MsgSnyatiePolozhitelnoe, self)
    ELSE IF FLt(FSub(self.current_balance, amount), Zero)
    THEN Raised(MsgNedostatochno, self)
    ELSE Returned(_log_transaction(
             [self EXCEPT !.current_balance = FSub(@, amount)],
             Popolnenie, amount, now))

\* withdraw_funds that makes the goal active again when it falls below target
withdraw_funds_reopen(self, amount, now) ==
    IF FLe(amount, Zero) THEN Raised(MsgSnyatiePolozhitelnoe, self)
    ELSE IF FLt(FSub(self.current_balance, amount), Zero)
    THEN Raised(MsgNedostatochno, self)
    ELSE Returned(_log_transaction(
             [self EXCEPT !.current_balance = FSub(@, amount),
                          !.status = IF FLt(FSub(self.current_balance, amount),
                                            self.target_amount)
                                     THEN Aktivna ELSE @],
             Snyatie, amount, now))

\* withdraw_funds without the check of the sign of the amount
withdraw_funds_any_sign(self, amount, now) ==
    IF FLt(FSub(self.current_balance, amount), Zero)
    THEN Raised(MsgNedostatochno, self)
    ELSE Returned(_log_transaction(
             [self EXCEPT !.current_balance = FSub(@, amount)],
             Snyatie, amount, now))

\* Goal.withdraw_funds
withdraw_funds(self, amount, now) ==
    IF FLe(amount, Zero) THEN Raised(MsgSnyatiePolozhitelnoe, self)
    ELSE IF FLt(FSub(self.current_balance, amount), Zero)
    THEN Raised(MsgNedostatochno, self)
    ELSE Returned(_log_transaction(
             [self EXCEPT !.current_balance = FSub(@, amount)],
             Snyatie, amount, now))

(***************************************************************************)
(* The store: load_goals, save_goals, find_goal_by_name.  The goals file   *)
(* is [kind, items]: kind "missing" (no such file), "unreadable" (open or  *)
(* read fails with IOError), "unparseable" (not JSON), "number" (JSON, but *)
(* a number and not an array) or "array" with the items of the array.      *)
(***************************************************************************)
MsgOshibkaChteniya == "Oshibka pri chtenii fayla"
MsgOshibkaSokhraneniya == "Oshibka pri sokhranenii fayla"

\* the list comprehension of load_goals: Goal.from_dict on each item in
\* order; the first exception ends it
RECURSIVE load_goals_items(_, _)
load_goals_items(items, now) ==
    IF items = <<>> THEN [raised |-> "none", msg |-> NoMsg, goals |-> <<>>]
    ELSE LET r == from_dict(Head(items), now)
             rest == load_goals_items(Tail(items), now)
         IN  IF r.raised # "none"
             THEN [raised |-> r.raised, msg |-> r.msg, goals |-> <<>>]
             ELSE IF rest.raised # "none" THEN rest
             ELSE [raised |-> "none", msg |-> NoMsg,
                   goals |-> <<r.self>> \o rest.goals]

\* load_goals: raised is the exception that leaves the function, msg what it
\* printed; only json.JSONDecodeError and IOError are caught
load_goals(f, now) ==
    IF f.kind = "missing"
    THEN [raised |-> "none", msg |-> NoMsg, goals |-> <<>>]
    ELSE IF f.kind \in {"unreadable", "unparseable"}
    THEN [raised |-> "none", msg |-> MsgOshibkaChteniya, goals |-> <<>>]
    ELSE IF f.kind = "number"
    THEN [raised |-> "TypeError", msg |-> NoMsg, goals |-> <<>>]
    ELSE load_goals_items(f.items, now)

\* save_goals: the file after the call; io is "ok", or "IOError" when the
\* file cannot be opened for writing (caught and printed, the file stays)
save_goals(gs, f, io) ==
    IF io = "IOError" THEN f
    ELSE [kind |-> "array", items |-> [i \in 1..Len(gs) |-> to_dict(gs[i])]]

\* str.lower on the letters of the model
lower_char(c) == IF c = "A" THEN "a" ELSE IF c = "B" THEN "b" ELSE c

\* str.lower that keeps the case
lower_keep(s) == s

\* str.lower
lower(s) == [i \in 1..Len(s) |-> lower_char(s[i])]

\* find_goal_by_name: the index of the goal returned, 0 for None
RECURSIVE find_goal_by_name(_, _)
find_goal_by_name(gs, name) ==
    IF gs = <<>> THEN 0
    ELSE IF lower(Head(gs).name) = lower(name) THEN 1
    ELSE IF find_goal_by_name(Tail(gs), name) = 0 THEN 0
    ELSE 1 + find_goal_by_name(Tail(gs), name)

(***************************************************************************)
(* The state machine: one Goal object and the calls made on it.            *)
(*   goal   <<>> before a Goal is constructed, <<g>> after                 *)
(*   copy   <<c>> right after c = Goal.from_dict(g.to_dict()), else <<>>   *)
(*   last   the last call: its name, the arguments of a constructor call,  *)
(*          and the exception it raised with its message                   *)
(*   clock  the reading of datetime.now()                                  *)
(***************************************************************************)
\* numbers passed as a target or an amount
Amounts == {x \in Floats : x.k # "fin" \/ x.v >= -1}

\* values passed as a category
Categories == Strings \cup {None}

Call(op, args, raised, msg) ==
    [op |-> op, args |-> args, raised |-> raised, msg |-> msg]

\* the local variables of add_goal and change_balance, outside of them
NoLocals == [name |-> <<>>, target_amount |-> Zero, idx |-> 0, action |-> <<>>]

\* a goals file that does not exist
NoFile == [kind |-> "missing", items |-> <<>>]

\* main() is not running
CLIOff ==
    /\ goals = <<>>
    /\ file = NoFile
    /\ pc = "off"
    /\ locals = NoLocals
    /\ choices = 0
    /\ saved = "none"

Init ==
    /\ goal = <<>>
    /\ copy = <<>>
    /\ last = Call("start", <<>>, "none", NoMsg)
    /\ clock = 0
    /\ CLIOff

\* g = Goal(name, target_amount, category)
Construct(name, target_amount, category) ==
    /\ goal = <<>>
    /\ IF Goal_check(name, target_amount) # NoMsg
       THEN /\ goal' = goal
            /\ last' = Call("Goal", <<name, target_amount, category>>,
                            "ValueError", Goal_check(name, target_amount))
       ELSE /\ goal' = <<Goal_init(name, target_amount, category, clock)>>
            /\ last' = Call("Goal", <<name, target_amount, category>>,
                            "none", NoMsg)
    /\ copy' = <<>>
    /\ UNCHANGED <<clock, cliVars>>

\* g.add_funds(amount)
Deposit(amount) ==
    /\ goal # <<>>
    /\ Len(goal[1].history) < MaxOps
    /\ LET r == add_funds(goal[1], amount, clock)
       IN  /\ goal' = <<r.self>>
           /\ last' = Call("add_funds", <<>>, r.raised, r.msg)
    /\ copy' = <<>>
    /\ UNCHANGED <<clock, cliVars>>

\* g.withdraw_funds(amount)
Withdraw(amount) ==
    /\ goal # <<>>
    /\ Len(goal[1].history) < MaxOps
    /\ LET r == withdraw_funds(goal[1], amount, clock)
       IN  /\ goal' = <<r.self>>
           /\ last' = Call("withdraw_funds", <<>>, r.raised, r.msg)
    /\ copy' = <<>>
    /\ UNCHANGED <<clock, cliVars>>

\* c = Goal.from_dict(g.to_dict())
RoundTrip ==
    /\ goal # <<>>
    /\ LET r == from_dict(to_dict(goal[1]), clock)
       IN  /\ copy' = IF r.raised = "none" THEN <<r.self>> ELSE <<>>
           /\ last' = Call("from_dict", <<>>, r.raised, r.msg)
    /\ UNCHANGED <<goal, clock, cliVars>>

\* time passes
Tick ==
    /\ clock < MaxClock
    /\ clock' = clock + 1
    /\ last' = Call("tick", <<>>, "none", NoMsg)
    /\ copy' = <<>>
    /\ UNCHANGED <<goal, cliVars>>

Next ==
    \/ \E name \in Strings, target_amount \in Amounts, category \in Categories :
           Construct(name, target_amount, category)
    \/ \E amount \in Amounts : Deposit(amount)
    \/ \E amount \in Amounts : Withdraw(amount)
    \/ RoundTrip
    \/ Tick

Spec == Init /\ [][Next]_vars

\* a goal named "a", constructed without a category at time 0 with any target
\* that Goal.__init__ accepts
InitFunds ==
    /\ \E target_amount \in Amounts :
           /\ Goal_check(<<"a">>, target_amount) = NoMsg
           /\ goal = <<Goal_init(<<"a">>, target_amount, None, 0)>>
           /\ last = Call("Goal", <<<<"a">>, target_amount, None>>, "none", NoMsg)
    /\ copy = <<>>
    /\ clock = 0
    /\ CLIOff

NextFunds ==
    \/ \E amount \in Amounts : Deposit(amount)
    \/ \E amount \in Amounts : Withdraw(amount)

SpecFunds == InitFunds /\ [][NextFunds]_vars

(***************************************************************************)
(* The state machine of one run of main().                                 *)
(*   file     the goals file                                               *)
(*   goals    the list main() holds                                        *)
(*   pc       "start" before load_goals, then the prompt the run waits at: *)
(*            "menu", "add_name", "add_target", "add_category" (add_goal), *)
(*            "chg_name", "chg_action", "chg_amount" (change_balance);     *)
(*            "exited" after choice 3, "crashed" when an exception left    *)
(*            main(); "off" when main() is not running                     *)
(*   locals   the local variables of add_goal or change_balance            *)
(*   choices  how many times 1 or 2 was chosen at the menu                 *)
(*   saved    the outcome of the last save_goals: "none", "ok", "IOError"  *)
(*   last     the last step: what it printed, and the exception that left  *)
(*            main() if one did                                            *)
(***************************************************************************)
MsgNazvanieNePustoe == "Oshibka: nazvanie tseli ne mozhet byt pustym."
MsgSummaBolsheNulyaCLI == "Summa dolzhna byt bolshe nulya."
MsgVvediteChisloPozhaluysta == "Pozhaluysta, vvedite chislo."
MsgOperatsiyaOtmenena == "Operatsiya otmenena polzovatelem."
MsgNetTseley == "Net sokhranyonnykh tseley. Snachala dobavte tsel."
MsgTselNeNaydena == "Tsel ne naydena."
MsgDeystvieOtmeneno == "Deystvie otmeneno."
MsgVvedite120 == "Vvedite 1, 2 ili 0."
MsgSummaPolozhitelnoy == "Summa dolzhna byt polozhitelnoy."
MsgVvediteChislo == "Vvedite chislo."
MsgNevernyVybor == "Nevernyy vybor. Poprobuyte snova."
MsgDoSvidaniya == "Do svidaniya!"

\* text typed at a number prompt that float() does not accept
NotANumber == [k |-> "text", v |-> 0]

\* what is typed at the prompts
TypedChoices == {<<"1">>, <<" ", "2">>, <<"3">>, <<"4">>}
TypedNames == {<<>>, <<" ">>, <<"a">>, <<"A">>, <<" ", "b">>}
TypedTargets == {NotANumber, Zero, Fin(2)}
TypedCategories == {<<>>, <<"a", " ">>}
TypedActions == {<<"0">>, <<"1">>, <<"2", " ">>, <<"x">>}
TypedAmounts == {NotANumber, Zero, Fin(1), Fin(3)}

\* goals files found at the start of a run; created_at is a reading of the
\* clock of an earlier run
StoredGoal(name, target_amount, current_balance, category, status) ==
    [name |-> name, target_amount |-> target_amount,
     current_balance |-> current_balance, category |-> category,
     status |-> status, created_at |-> 0, history |-> <<>>]
StoredA == StoredGoal(<<"a">>, Fin(2), Zero, <<"a">>, Aktivna)
StoredB ==
    [StoredGoal(<<"b">>, Fin(2), Fin(2), BezKategorii, Dostignuta)
     EXCEPT !.history = <<[operation |-> Popolnenie, amount |-> Fin(2),
                           balance_after |-> Fin(2), timestamp |-> 0]>>]
StoredItems ==
    {<<>>,
     <<PyDict(GoalKeys, StoredA)>>,
     <<PyDict(GoalKeys, StoredB), PyDict(GoalKeys, StoredA)>>,
     \* balance above the target, balance below zero
     <<PyDict(GoalKeys, [StoredA EXCEPT !.current_balance = Fin(3)])>>,
     <<PyDict(GoalKeys, [StoredA EXCEPT !.current_balance = Fin(-1),
                                        !.status = Dostignuta])>>,
     \* a category of spaces
     <<PyDict(GoalKeys, [StoredA EXCEPT !.category = <<" ">>])>>,
     \* blank name, target that is not positive
     <<PyDict(GoalKeys, [StoredA EXCEPT !.name = <<" ">>])>>,
     <<PyDict(GoalKeys, [StoredA EXCEPT !.target_amount = Zero])>>,
     \* keys missing
     <<PyDict(GoalKeys \ {"history"}, StoredA)>>,
     <<PyDict(GoalKeys \ {"category"}, StoredA)>>,
     <<PyDict(GoalKeys \ {"status"}, StoredA)>>,
     \* an item that is not a record
     <<PyDict(GoalKeys, StoredA), PyNumber>>}
Files ==
    {NoFile, [kind |-> "unreadable", items |-> <<>>],
     [kind |-> "unparseable", items |-> <<>>],
     [kind |-> "number", items |-> <<>>]}
    \cup {[kind |-> "array", items |-> items] : items \in StoredItems}

SaveOutcomes == {"ok", "IOError"}

InitCLI ==
    /\ goal = <<>>
    /\ copy = <<>>
    /\ clock = 0
    /\ last = Call("start", <<>>, "none", NoMsg)
    /\ file \in Files
    /\ goals = <<>>
    /\ pc = "start"
    /\ locals = NoLocals
    /\ choices = 0
    /\ saved = "none"

\* main: goals = load_goals(filename)
Start ==
    /\ pc = "start"
    /\ LET r == load_goals(file, clock)
       IN  /\ goals' = r.goals
           /\ pc' = IF r.raised = "none" THEN "menu" ELSE "crashed"
           /\ last' = Call("load_goals", <<>>, r.raised, r.msg)
    /\ UNCHANGED <<file, locals, choices, saved, objVars>>

\* add_goal or change_balance returns with the list gs, and main calls
\* save_goals
ReturnToMenu(gs) ==
    /\ goals' = gs
    /\ \E io \in SaveOutcomes :
           /\ file' = save_goals(gs, file, io)
           /\ saved' = io
    /\ pc' = "menu"
    /\ locals' = NoLocals

\* main: the menu prompt and the dispatch on the choice; with choice 2 and
\* no goals, change_balance returns at once
MenuChoice(text) ==
    /\ pc = "menu"
    /\ LET choice == strip(text)
       IN  IF choice = <<"1">>
           THEN /\ choices < MaxChoices
                /\ choices' = choices + 1
                /\ pc' = "add_name"
                /\ last' = Call("main", <<>>, "none", NoMsg)
                /\ UNCHANGED <<goals, file, locals, saved>>
           ELSE IF choice = <<"2">>
           THEN /\ choices < MaxChoices
                /\ choices' = choices + 1
                /\ IF goals = <<>>
                   THEN /\ last' = Call("change_balance", <<>>, "none", MsgNetTseley)
                        /\ ReturnToMenu(goals)
                   ELSE /\ pc' = "chg_name"
                        /\ last' = Call("main", <<>>, "none", NoMsg)
                        /\ UNCHANGED <<goals, file, locals, saved>>
           ELSE IF choice = <<"3">>
           THEN /\ pc' = "exited"
                /\ last' = Call("main", <<>>, "none", MsgDoSvidaniya)
                /\ UNCHANGED <<goals, file, locals, choices, saved>>
           ELSE /\ last' = Call("main", <<>>, "none", MsgNevernyVybor)
                /\ UNCHANGED cliVars
    /\ UNCHANGED objVars

\* add_goal: the name prompt
AddGoalName(text) ==
    /\ pc = "add_name"
    /\ LET name == strip(text)
       IN  IF name = <<>>
           THEN /\ last' = Call("add_goal", <<>>, "none", MsgNazvanieNePustoe)
                /\ ReturnToMenu(goals)
           ELSE /\ locals' = [NoLocals EXCEPT !.name = name]
                /\ pc' = "add_target"
                /\ last' = Call("add_goal", <<>>, "none", NoMsg)
                /\ UNCHANGED <<goals, file, saved>>
    /\ UNCHANGED <<choices, objVars>>

\* add_goal: one round of the loop of the target prompt
AddGoalTarget(typed) ==
    /\ pc = "add_target"
    /\ IF typed = NotANumber
       THEN /\ last' = Call("add_goal", <<>>, "none", MsgVvediteChisloPozhaluysta)
            /\ UNCHANGED <<pc, locals>>
       ELSE IF FLe(float(typed), Zero)
       THEN /\ last' = Call("add_goal", <<>>, "none", MsgSummaBolsheNulyaCLI)
            /\ UNCHANGED <<pc, locals>>
       ELSE /\ locals' = [locals EXCEPT !.target_amount = float(typed)]
            /\ pc' = "add_category"
            /\ last' = Call("add_goal", <<>>, "none", NoMsg)
    /\ UNCHANGED <<goals, file, choices, saved, objVars>>

\* add_goal: the category prompt, Goal(...), goals.append; a ValueError of
\* the constructor is caught and printed
AddGoalCategory(text) ==
    /\ pc = "add_category"
    /\ LET category == strip(text)
           msg == Goal_check(locals.name, locals.target_amount)
       IN  IF msg # NoMsg
           THEN /\ last' = Call("add_goal", <<>>, "none", msg)
                /\ ReturnToMenu(goals)
           ELSE /\ last' = Call("add_goal", <<>>, "none", NoMsg)
                /\ ReturnToMenu(Append(goals,
                       Goal_init(locals.name, locals.target_amount,
                                 category, clock)))
    /\ UNCHANGED <<choices, objVars>>

\* change_balance: the name prompt and find_goal_by_name
ChangeBalanceName(text) ==
    /\ pc = "chg_name"
    /\ LET name == strip(text)
           idx == find_goal_by_name(goals, name)
       IN  IF idx = 0
           THEN /\ last' = Call("change_balance", <<>>, "none", MsgTselNeNaydena)
                /\ ReturnToMenu(goals)
           ELSE /\ locals' = [NoLocals EXCEPT !.name = name, !.idx = idx]
                /\ pc' = "chg_action"
                /\ last' = Call("change_balance", <<>>, "none", NoMsg)
                /\ UNCHANGED <<goals, file, saved>>
    /\ UNCHANGED <<choices, objVars>>

\* change_balance: one round of the loop of the action prompt
ChangeBalanceAction(text) ==
    /\ pc = "chg_action"
    /\ LET action == strip(text)
       IN  IF action = <<"0">>
           THEN /\ last' = Call("change_balance", <<>>, "none", MsgDeystvieOtmeneno)
                /\ ReturnToMenu(goals)
           ELSE IF action \in {<<"1">>, <<"2">>}
           THEN /\ locals' = [locals EXCEPT !.action = action]
                /\ pc' = "chg_amount"
                /\ last' = Call("change_balance", <<>>, "none", NoMsg)
                /\ UNCHANGED <<goals, file, saved>>
           ELSE /\ last' = Call("change_balance", <<>>, "none", MsgVvedite120)
                /\ UNCHANGED <<goals, file, saved, pc, locals>>
    /\ UNCHANGED <<choices, objVars>>

\* change_balance: one round of the loop of the amount prompt, then
\* add_funds or withdraw_funds on the goal found; their ValueError is caught
\* and printed
ChangeBalanceAmount(typed) ==
    /\ pc = "chg_amount"
    /\ IF typed = NotANumber
       THEN /\ last' = Call("change_balance", <<>>, "none", MsgVvediteChislo)
            /\ UNCHANGED <<goals, file, saved, pc, locals>>
       ELSE IF FLe(float(typed), Zero)
       THEN /\ last' = Call("change_balance", <<>>, "none", MsgSummaPolozhitelnoy)
            /\ UNCHANGED <<goals, file, saved, pc, locals>>
       ELSE LET r == IF locals.action = <<"1">>
                     THEN add_funds(goals[locals.idx], float(typed), clock)
                     ELSE withdraw_funds(goals[locals.idx], float(typed), clock)
            IN  /\ last' = Call("change_balance", <<>>, "none", r.msg)
                /\ ReturnToMenu([goals EXCEPT ![locals.idx] = r.self])
    /\ UNCHANGED <<choices, objVars>>

\* KeyboardInterrupt at a prompt: add_goal catches it and returns;
\* change_balance and main have no handler, so it leaves main()
Interrupt ==
    /\ pc \in {"menu", "add_name", "add_target", "add_category",
               "chg_name", "chg_action", "chg_amount"}
    /\ IF pc \in {"add_name", "add_target", "add_category"}
       THEN /\ last' = Call("KeyboardInterrupt", <<>>, "none", MsgOperatsiyaOtmenena)
            /\ ReturnToMenu(goals)
       ELSE /\ last' = Call("KeyboardInterrupt", <<>>, "KeyboardInterrupt", NoMsg)
            /\ pc' = "crashed"
            /\ UNCHANGED <<goals, file, locals, saved>>
    /\ UNCHANGED <<choices, objVars>>

NextCLI ==
    \/ Start
    \/ \E text \in TypedChoices : MenuChoice(text)
    \/ \E text \in TypedNames : AddGoalName(text)
    \/ \E typed \in TypedTargets : AddGoalTarget(typed)
    \/ \E text \in TypedCategories : AddGoalCategory(text)
    \/ \E text \in TypedNames : ChangeBalanceName(text)
    \/ \E text \in TypedActions : ChangeBalanceAction(text)
    \/ \E typed \in TypedAmounts : ChangeBalanceAmount(typed)
    \/ Interrupt

SpecCLI == InitCLI /\ [][NextCLI]_vars

TypeOK ==
    /\ Len(goal) <= 1
    /\ \A i \in 1..Len(goal) :
           /\ goal[i].target_amount \in Floats
           /\ goal[i].current_balance \in Floats
           /\ goal[i].status \in {Aktivna, Dostignuta, Otmenena}
           /\ Len(goal[i].history) <= MaxOps
    /\ clock \in 0..MaxClock

(***************************************************************************)
(* Vocabulary of the properties.  In a state with a goal g, the outcome of *)
(* g.add_funds(d) or g.withdraw_funds(w) is what the method computes from  *)
(* g; the Deposit and Withdraw steps are exactly these outcomes.           *)
(***************************************************************************)
\* the goal before and after a step
g == goal[1]
gNext == goal'[1]

\* self after a call is self before it with exactly one more record, and
\* that record is (operation, amount, balance after the call)
AppendedOne(before, after, operation, amount) ==
    /\ Len(after.history) = Len(before.history) + 1
    /\ SubSeq(after.history, 1, Len(before.history)) = before.history
    /\ after.history[Len(after.history)].operation = operation
    /\ after.history[Len(after.history)].amount = amount
    /\ after.history[Len(after.history)].balance_after = after.current_balance

(***************************************************************************)
(* C1: after any sequence of add_funds and withdraw_funds calls with       *)
(* arbitrary amounts, 0 <= current_balance <= target_amount.               *)
(***************************************************************************)
C1_BalanceWithinBounds ==
    goal # <<>> =>
        /\ FLe(Zero, g.current_balance)
        /\ FLe(g.current_balance, g.target_amount)

(***************************************************************************)
(* C2: add_funds(d) with d > 0 and current_balance + d <= target_amount    *)
(* succeeds, the new balance is the old balance plus d, and exactly one    *)
(* record (Popolnenie, d, new balance) is appended to the history.         *)
(***************************************************************************)
C2_DepositWithinTarget ==
    goal # <<>> =>
        \A d \in Amounts :
            (FGt(d, Zero) /\ FLe(FAdd(g.current_balance, d), g.target_amount))
            => LET r == add_funds(g, d, clock)
               IN  /\ r.raised = "none"
                   /\ r.self.current_balance = FAdd(g.current_balance, d)
                   /\ AppendedOne(g, r.self, Popolnenie, d)

\* a second deposit was accepted on top of a first one
C2_Witness ==
    /\ goal # <<>>
    /\ last.op = "add_funds" /\ last.raised = "none"
    /\ Len(g.history) = 2
    /\ g.history[1].operation = Popolnenie
    /\ g.history[2].operation = Popolnenie
    /\ FGt(g.history[1].balance_after, Zero)
    /\ FGt(g.history[2].amount, Zero)
    /\ g.current_balance = FAdd(g.history[1].balance_after, g.history[2].amount)
    /\ FLe(g.current_balance, g.target_amount)

(***************************************************************************)
(* C3: add_funds(d) with current_balance + d > target_amount raises        *)
(* ValueError and leaves the whole goal unchanged; nothing is clamped.     *)
(***************************************************************************)
C3_DepositOverTargetRejected ==
    goal # <<>> =>
        \A d \in Amounts :
            FGt(FAdd(g.current_balance, d), g.target_amount)
            => LET r == add_funds(g, d, clock)
               IN  r.raised = "ValueError" /\ r.self = g

\* a deposit that would pass the target was refused on a goal that already
\* holds money, and the goal is as the earlier deposit left it
C3_Witness ==
    /\ goal # <<>>
    /\ last.op = "add_funds" /\ last.raised = "ValueError"
    /\ last.msg = MsgNelzyaPrevysit
    /\ Len(g.history) = 1
    /\ FGt(g.current_balance, Zero)
    /\ g.current_balance = g.history[1].balance_after

(***************************************************************************)
(* C4: withdraw_funds(w) with w > current_balance raises ValueError and    *)
(* leaves the whole goal unchanged.                                        *)
(***************************************************************************)
C4_OverdrawRejected ==
    goal # <<>> =>
        \A w \in Amounts :
            FGt(w, g.current_balance)
            => LET r == withdraw_funds(g, w, clock)
               IN  r.raised = "ValueError" /\ r.self = g

\* a withdrawal larger than a positive balance was refused, and the goal is
\* as the earlier deposit left it
C4_Witness ==
    /\ goal # <<>>
    /\ last.op = "withdraw_funds" /\ last.raised = "ValueError"
    /\ last.msg = MsgNedostatochno
    /\ Len(g.history) = 1
    /\ FGt(g.current_balance, Zero)
    /\ g.current_balance = g.history[1].balance_after

(***************************************************************************)
(* C5: withdraw_funds(w) with 0 < w <= current_balance succeeds, the new   *)
(* balance is the old balance minus w, exactly one record (Snyatie, w, new *)
(* balance) is appended to the history, and the status does not change.    *)
(***************************************************************************)
C5_WithdrawWithinBalance ==
    goal # <<>> =>
        \A w \in Amounts :
            (FLt(Zero, w) /\ FLe(w, g.current_balance))
            => LET r == withdraw_funds(g, w, clock)
               IN  /\ r.raised = "none"
                   /\ r.self.current_balance = FSub(g.current_balance, w)
                   /\ AppendedOne(g, r.self, Snyatie, w)
                   /\ r.self.status = g.status

\* part of the balance of a goal that had reached its target was withdrawn
C5_Witness ==
    /\ goal # <<>>
    /\ last.op = "withdraw_funds" /\ last.raised = "none"
    /\ Len(g.history) = 2
    /\ g.history[2].operation = Snyatie
    /\ FLt(g.history[2].amount, g.history[1].balance_after)
    /\ g.current_balance = FSub(g.history[1].balance_after, g.history[2].amount)
    /\ g.status = Dostignuta

(***************************************************************************)
(* C6: with current_balance < target_amount, add_funds of exactly          *)
(* target_amount - current_balance succeeds and leaves the status          *)
(* Dostignuta and the balance equal to the target; a successful deposit    *)
(* that leaves the balance strictly below the target keeps the status.     *)
(***************************************************************************)
C6_ExactDepositReaches ==
    goal # <<>> =>
        /\ FLt(g.current_balance, g.target_amount)
           => LET r == add_funds(g, FSub(g.target_amount, g.current_balance), clock)
              IN  /\ r.raised = "none"
                  /\ r.self.status = Dostignuta
                  /\ r.self.current_balance = g.target_amount
        /\ \A d \in Amounts :
               LET r == add_funds(g, d, clock)
               IN  (/\ r.raised = "none"
                    /\ FLt(r.self.current_balance, r.self.target_amount))
                   => r.self.status = g.status

(***************************************************************************)
(* C7: the only status change is Aktivna -> Dostignuta: a goal that is     *)
(* Dostignuta stays so, also when its whole balance is withdrawn, and no   *)
(* goal is ever Otmenena.                                                  *)
(***************************************************************************)
C7_StatusOnlyAdvances ==
    /\ [][(goal # <<>> /\ gNext.status # g.status)
          => (g.status = Aktivna /\ gNext.status = Dostignuta)]_vars
    /\ [](goal # <<>> => g.status # Otmenena)

\* the whole balance of a goal that reached its target was withdrawn
C7_Witness ==
    /\ goal # <<>>
    /\ last.op = "withdraw_funds" /\ last.raised = "none"
    /\ g.status = Dostignuta
    /\ g.current_balance = Zero
    /\ g.history[1].balance_after = g.target_amount

(***************************************************************************)
(* C8: Goal(name, target_amount) raises ValueError exactly when the name   *)
(* is empty or blank or the target is not strictly positive; otherwise it  *)
(* yields a goal with the trimmed name, balance 0, status Aktivna and an   *)
(* empty history.                                                          *)
(***************************************************************************)
C8_ConstructorContract ==
    last.op = "Goal" =>
        /\ (last.raised = "ValueError")
               <=> (strip(last.args[1]) = <<>> \/ ~FGt(last.args[2], Zero))
        /\ last.raised = "none" =>
               /\ goal # <<>>
               /\ g.name = strip(last.args[1])
               /\ g.current_balance = Zero
               /\ g.status = Aktivna
               /\ g.history = <<>>

(***************************************************************************)
(* C9: a category that is omitted, empty or blank becomes the default      *)
(* category "Bez kategorii", any other one is stored trimmed, and no goal  *)
(* has an empty category.                                                  *)
(***************************************************************************)
C9_CategoryDefault ==
    /\ (last.op = "Goal" /\ last.raised = "none") =>
           g.category = IF last.args[3] = None \/ strip(last.args[3]) = <<>>
                        THEN BezKategorii
                        ELSE strip(last.args[3])
    /\ goal # <<>> => g.category # <<>>

(***************************************************************************)
(* C10: for every goal g reached by the constructor and any deposits and   *)
(* withdrawals, Goal.from_dict(g.to_dict()) has the same name, target,     *)
(* balance, category, status, created_at and history as g.                 *)
(***************************************************************************)
C10_RoundTrip ==
    last.op = "from_dict" =>
        /\ last.raised = "none"
        /\ copy # <<>>
        /\ copy[1].name = g.name
        /\ copy[1].target_amount = g.target_amount
        /\ copy[1].current_balance = g.current_balance
        /\ copy[1].category = g.category
        /\ copy[1].status = g.status
        /\ copy[1].created_at = g.created_at
        /\ copy[1].history = g.history

(***************************************************************************)
(* C13: add_funds(amount) and withdraw_funds(amount) with amount <= 0      *)
(* raise ValueError in every goal state and leave the goal unchanged.      *)
(***************************************************************************)
C13_NonPositiveAmountRejected ==
    goal # <<>> =>
        \A amount \in Amounts :
            FLe(amount, Zero)
            => /\ add_funds(g, amount, clock).raised = "ValueError"
               /\ add_funds(g, amount, clock).self = g
               /\ withdraw_funds(g, amount, clock).raised = "ValueError"
               /\ withdraw_funds(g, amount, clock).self = g

\* a withdrawal of a non-positive amount was refused on a goal that holds
\* money, and the goal is as the earlier deposit left it
C13_Witness ==
    /\ goal # <<>>
    /\ last.op = "withdraw_funds" /\ last.raised = "ValueError"
    /\ last.msg = MsgSnyatiePolozhitelnoe
    /\ Len(g.history) = 1
    /\ FGt(g.current_balance, Zero)
    /\ g.current_balance = g.history[1].balance_after

(***************************************************************************)
(* C14: the history is append-only: every step keeps the earlier history   *)
(* as a prefix, a successful add_funds or withdraw_funds extends it by     *)
(* exactly one record, a failed one by none.                               *)
(***************************************************************************)
C14_HistoryAppendOnly ==
    [][(goal # <<>> /\ goal' # <<>>)
       => /\ Len(gNext.history) >= Len(g.history)
          /\ SubSeq(gNext.history, 1, Len(g.history)) = g.history
          /\ (last'.op \in {"add_funds", "withdraw_funds"} /\ last'.raised = "none")
             => Len(gNext.history) = Len(g.history) + 1
          /\ (last'.op \in {"add_funds", "withdraw_funds"} /\ last'.raised # "none")
             => gNext.history = g.history]_vars

\* a withdrawal was recorded after a different deposit
C14_Witness ==
    /\ goal # <<>>
    /\ last.op = "withdraw_funds" /\ last.raised = "none"
    /\ Len(g.history) = 2
    /\ g.history[1].operation = Popolnenie
    /\ g.history[2].operation = Snyatie
    /\ g.history[1].balance_after # g.history[2].balance_after

(***************************************************************************)
(* C19: a goal that is Aktivna has current_balance < target_amount, and a  *)
(* goal that is Dostignuta has a Popolnenie record whose balance_after is  *)
(* the target.                                                             *)
(***************************************************************************)
C19_StatusMatchesBalance ==
    goal # <<>> =>
        /\ g.status = Aktivna => FLt(g.current_balance, g.target_amount)
        /\ g.status = Dostignuta =>
               \E i \in 1..Len(g.history) :
                   /\ g.history[i].operation = Popolnenie
                   /\ g.history[i].balance_after = g.target_amount

(***************************************************************************)
(* C20: the history is a consistent ledger: it is empty only with balance  *)
(* 0; otherwise the last balance_after is the current balance, the first   *)
(* balance_after is the first amount, every later balance_after is the     *)
(* previous one plus (Popolnenie) or minus (Snyatie) the amount, and every *)
(* amount is > 0.                                                          *)
(***************************************************************************)
C20_LedgerConsistent ==
    goal # <<>> =>
        /\ g.history = <<>> => g.current_balance = Zero
        /\ g.history # <<>> =>
               /\ g.history[Len(g.history)].balance_after = g.current_balance
               /\ g.history[1].balance_after = g.history[1].amount
        /\ \A i \in 1..Len(g.history) : FGt(g.history[i].amount, Zero)
        /\ \A i \in 2..Len(g.history) :
               g.history[i].balance_after =
                   IF g.history[i].operation = Popolnenie
                   THEN FAdd(g.history[i - 1].balance_after, g.history[i].amount)
                   ELSE FSub(g.history[i - 1].balance_after, g.history[i].amount)

(***************************************************************************)
(* Vocabulary of the properties of the store and the menu loop.            *)
(***************************************************************************)
\* two strings are equal up to the case of their letters
SameIgnoringCase(a, b) ==
    /\ Len(a) = Len(b)
    /\ \A i \in 1..Len(a) :
           a[i] = b[i] \/ {a[i], b[i]} \in {{"a", "A"}, {"b", "B"}}

\* the position of the first goal whose name is q up to case, 0 if none is
FirstMatch(gs, q) ==
    LET matches == {i \in 1..Len(gs) : SameIgnoringCase(gs[i].name, q)}
    IN  IF matches = {} THEN 0
        ELSE CHOOSE i \in matches : \A j \in matches : i <= j

\* names passed to find_goal_by_name
Queries == TypedNames \cup {<<"a", " ">>, <<"B">>, <<"b">>}

(***************************************************************************)
(* C11 as stated: find_goal_by_name(goals, name) returns the first goal    *)
(* whose name equals the trimmed query ignoring case, and None if there is *)
(* none.                                                                   *)
(***************************************************************************)
C11_FindTrimsQuery ==
    \A q \in Queries : find_goal_by_name(goals, q) = FirstMatch(goals, strip(q))

(***************************************************************************)
(* C11 amended: find_goal_by_name(goals, name) returns the first goal      *)
(* whose name equals the query as passed ignoring case, and None if there  *)
(* is none; it does not trim the query.  change_balance trims what was     *)
(* typed before the call, and the goal it works on is that first match.    *)
(***************************************************************************)
C11_FindIgnoresCase ==
    /\ \A q \in Queries : find_goal_by_name(goals, q) = FirstMatch(goals, q)
    /\ pc \in {"chg_action", "chg_amount"} =>
           /\ locals.idx = FirstMatch(goals, locals.name)
           /\ locals.idx > 0

\* change_balance found the second goal, "a", for the query "A"
C11_Witness ==
    /\ pc = "chg_action"
    /\ locals.name = <<"A">>
    /\ locals.idx = 2
    /\ goals[2].name = <<"a">>

(***************************************************************************)
(* C12: load_goals never aborts the process: no exception leaves it, the   *)
(* run reaches the menu, a missing file gives an empty list, and a file    *)
(* that cannot be turned into a list of goals is reported and gives an     *)
(* empty list.                                                             *)
(***************************************************************************)
C12_LoadNeverAborts ==
    last.op = "load_goals" =>
        /\ last.raised = "none"
        /\ pc = "menu"
        /\ file.kind = "missing" => goals = <<>>
        /\ file.kind \in {"unreadable", "unparseable", "number"} =>
               goals = <<>> /\ last.msg = MsgOshibkaChteniya

(***************************************************************************)
(* C15: no two goals of the list have names that are equal ignoring case,  *)
(* and find_goal_by_name returns every goal of the list for its own name.  *)
(***************************************************************************)
C15_NamesUnique ==
    \A i, j \in 1..Len(goals) :
        /\ i # j => ~SameIgnoringCase(goals[i].name, goals[j].name)
        /\ find_goal_by_name(goals, goals[i].name) = i

(***************************************************************************)
(* C16: a KeyboardInterrupt at a prompt of add_goal or change_balance ends *)
(* only that operation: the run is back at the menu and the list of goals  *)
(* is as it was.                                                           *)
(***************************************************************************)
C16_InterruptAbortsOnlyOperation ==
    [][(/\ pc \in {"add_name", "add_target", "add_category",
                   "chg_name", "chg_action", "chg_amount"}
        /\ last'.op = "KeyboardInterrupt")
       => (pc' = "menu" /\ goals' = goals)]_vars

(***************************************************************************)
(* C17: at the menu prompt after an operation whose save succeeded, the    *)
(* file is the serialization of the list of goals in order, and loading it *)
(* gives the same goals in the same order.                                 *)
(***************************************************************************)
C17_SavedAndReloadable ==
    (pc = "menu" /\ saved = "ok") =>
        /\ file.kind = "array"
        /\ Len(file.items) = Len(goals)
        /\ \A i \in 1..Len(goals) : file.items[i] = to_dict(goals[i])
        /\ load_goals(file, clock).raised = "none"
        /\ load_goals(file, clock).goals = goals

(***************************************************************************)
(* C18: from_dict restores current_balance, status and history as stored   *)
(* (an absent history as empty) and checks only the name and the target: a *)
(* file of complete records with non-blank names and positive targets      *)
(* loads, whatever the balances, and every loaded goal carries the stored  *)
(* balance, status and history.                                            *)
(***************************************************************************)
C18_RestoredVerbatim ==
    (last.op = "load_goals" /\ file.kind = "array") =>
        /\ (\A i \in 1..Len(file.items) :
                /\ file.items[i].t = "dict"
                /\ GoalKeys \ {"history"} \subseteq file.items[i].keys
                /\ strip(file.items[i].val.name) # <<>>
                /\ FGt(file.items[i].val.target_amount, Zero))
           => last.raised = "none"
        /\ last.raised = "none" =>
               /\ Len(goals) = Len(file.items)
               /\ \A i \in 1..Len(goals) :
                      /\ goals[i].current_balance = file.items[i].val.current_balance
                      /\ goals[i].status = file.items[i].val.status
                      /\ goals[i].history =
                             IF "history" \in file.items[i].keys
                             THEN file.items[i].val.history ELSE <<>>

\* a goal was loaded with its balance above its target
C18_Witness ==
    /\ last.op = "load_goals" /\ last.raised = "none"
    /\ goals # <<>>
    /\ FGt(goals[1].current_balance, goals[1].target_amount)

====
